---- MODULE Spec2Model ----
(***************************************************************************)
(* Model of cloudrun/api_plantilla/Tools.py:                               *)
(*   read_gcs_files_to_dataframes_aserta  (incremental ingestion with a    *)
(*   processed-file ledger kept as a text object in the bucket).           *)
(*                                                                         *)
(* Strings are sequences of one-character strings, so that join, split,    *)
(* strip, startswith and endswith are computed as Python computes them.    *)
(***************************************************************************)
EXTENDS Integers, Sequences, FiniteSets, TLC

(***************************************************************************)
(* Bounds of the model.                                                    *)
(***************************************************************************)
\* number of calls of the routine in a behaviour of runs in succession
MaxRuns == 2
\* number of calls of the routine in a behaviour of overlapping runs
MaxConcRuns == 3
\* number of calls in a behaviour of runs with and without the ledger
MaxModeRuns == 3
\* number of calls in a behaviour of runs with a file_type and file_prefix
MaxFilterRuns == 2
\* number of calls in a behaviour of runs with an unsupported file_type
MaxTypeRuns == 2
\* largest number of rows of a DataFrame handed to upload_to_bigquery
MaxRows == 3
\* largest chunk_size handed to upload_to_bigquery
MaxChunk == 3
\* number of calls of upload_to_bigquery in a behaviour
MaxUploads == 2

(***************************************************************************)
(* Python string operations.                                               *)
(***************************************************************************)
NL == "\n"
SLASH == "/"
BACKSLASH == "\\"

\* str.strip() with no argument removes these (the ASCII whitespace used here)
Whitespace == {" ", "\t", "\r", "\n"}

\* s.startswith(p)
startswith(s, p) ==
    /\ Len(p) <= Len(s)
    /\ SubSeq(s, 1, Len(p)) = p

\* s.endswith(p)
endswith(s, p) ==
    /\ Len(p) <= Len(s)
    /\ SubSeq(s, Len(s) - Len(p) + 1, Len(s)) = p

RECURSIVE lstrip(_)
lstrip(s) ==
    IF s # <<>> /\ Head(s) \in Whitespace THEN lstrip(Tail(s)) ELSE s

RECURSIVE rstrip(_)
rstrip(s) ==
    IF s # <<>> /\ s[Len(s)] \in Whitespace
    THEN rstrip(SubSeq(s, 1, Len(s) - 1))
    ELSE s

\* s.strip()
strip(s) == rstrip(lstrip(s))

\* s.split(sep) for a one-character separator: the list of the pieces
\* between separators, empty pieces included (always at least one piece)
RECURSIVE splitFrom(_, _, _)
splitFrom(s, sep, cur) ==
    IF s = <<>> THEN <<cur>>
    ELSE IF Head(s) = sep
         THEN <<cur>> \o splitFrom(Tail(s), sep, <<>>)
         ELSE splitFrom(Tail(s), sep, Append(cur, Head(s)))

split(s, sep) == splitFrom(s, sep, <<>>)

\* sep.join(list) for a one-character separator
RECURSIVE join(_, _)
join(sep, list) ==
    IF list = <<>> THEN <<>>
    ELSE IF Len(list) = 1 THEN list[1]
    ELSE list[1] \o <<sep>> \o join(sep, Tail(list))

\* s.replace(a, b) for one-character a and b
replace(s, a, b) == [i \in 1..Len(s) |-> IF s[i] = a THEN b ELSE s[i]]

\* the elements of a list, as a set
Range(f) == {f[k] : k \in 1..Len(f)}

\* x in list
In(x, list) == \E i \in 1..Len(list) : list[i] = x

\* list.remove(x): drops the first element equal to x (x is in the list)
remove(list, x) ==
    LET i == CHOOSE k \in 1..Len(list) :
                 /\ list[k] = x
                 /\ \A j \in 1..(k - 1) : list[j] # x
    IN  SubSeq(list, 1, i - 1) \o SubSeq(list, i + 1, Len(list))

\* os.path.join(a, b) on POSIX for a relative b
path_join(a, b) ==
    IF a = <<>> \/ a[Len(a)] = SLASH THEN a \o b ELSE a \o <<SLASH>> \o b

\* blob.name.split("/")[-1]
TrailingName(name) ==
    LET parts == split(name, SLASH) IN parts[Len(parts)]

(***************************************************************************)
(* The bucket: names, contents and listing order.                          *)
(***************************************************************************)
\* the prefix ("folder") every run is called with: "d/"
prefix == <<"d", "/">>

\* log_filename = "file_already_read.txt"
log_filename ==
    <<"f", "i", "l", "e", "_", "a", "l", "r", "e", "a", "d", "y", "_",
      "r", "e", "a", "d", ".", "t", "x", "t">>

\* the values of file_type used by the calls
CSV == <<".", "c", "s", "v">>
XLSX == <<".", "x", "l", "s", "x">>
TXT == <<".", "t", "x", "t">>

\* file_prefix=None
None == <<"None">>

\* the data objects that may be uploaded to the bucket
BlobA == <<"d", "/", "a", ".", "c", "s", "v">>
BlobSubA == <<"d", "/", "s", "/", "a", ".", "c", "s", "v">>
BlobB == <<"d", "/", "b", ".", "c", "s", "v">>
BlobSpB == <<"d", "/", " ", "b", ".", "c", "s", "v">>

AllBlobs == {BlobA, BlobSubA, BlobB, BlobSpB}

\* objects told apart by file_type and file_prefix:
\* "d/a_data.csv", "d/b_other.csv", "d/a_data.txt", and an object in a
\* sub-path with the trailing name of the ledger
BlobADataCsv ==
    <<"d", "/", "a", "_", "d", "a", "t", "a", ".", "c", "s", "v">>
BlobBOtherCsv ==
    <<"d", "/", "b", "_", "o", "t", "h", "e", "r", ".", "c", "s", "v">>
BlobADataTxt ==
    <<"d", "/", "a", "_", "d", "a", "t", "a", ".", "t", "x", "t">>
BlobSubLog ==
    <<"d", "/", "s", "/", "f", "i", "l", "e", "_", "a", "l", "r", "e", "a",
      "d", "y", "_", "r", "e", "a", "d", ".", "t", "x", "t">>
\* "d/s/a_data.txt"
BlobSubADataTxt ==
    <<"d", "/", "s", "/", "a", "_", "d", "a", "t", "a", ".", "t", "x", "t">>

\* file_prefix="a_"
PrefixA == <<"a", "_">>

\* number of data rows the reader returns for each object; an object is
\* immutable once written, so its rows are a function of its name
NumRows(name) ==
    IF name = BlobA THEN 2
    ELSE IF name = BlobB THEN 0
    ELSE 1

\* the characters of the names above, in code-point order
Alphabet ==
    <<" ", ".", "/", "_", "a", "b", "c", "d", "e", "f", "h", "i", "l", "o",
      "r", "s", "t", "v", "x", "y">>

Ord(c) == CHOOSE k \in 1..Len(Alphabet) : Alphabet[k] = c

\* a < b in the lexicographic order in which the store lists object names
RECURSIVE NameLess(_, _)
NameLess(a, b) ==
    IF b = <<>> THEN FALSE
    ELSE IF a = <<>> THEN TRUE
    ELSE IF Head(a) = Head(b) THEN NameLess(Tail(a), Tail(b))
    ELSE Ord(Head(a)) < Ord(Head(b))

\* a set of names as the sequence in listing order
RECURSIVE Sorted(_)
Sorted(S) ==
    IF S = {} THEN <<>>
    ELSE LET m == CHOOSE x \in S : \A y \in S \ {x} : NameLess(x, y)
         IN  <<m>> \o Sorted(S \ {m})

\* the rows pd.read_csv / pd.read_excel returns for an object
FileRows(name) == [k \in 1..NumRows(name) |-> [src |-> name, row |-> k]]

\* df["file"] = file_name
TagFile(df, file_name) ==
    [k \in 1..Len(df) |-> [src |-> df[k].src, row |-> df[k].row,
                           file |-> file_name]]

\* pd.concat(all_dataframes, ignore_index=True)
RECURSIVE concat(_)
concat(dfs) == IF dfs = <<>> THEN <<>> ELSE Head(dfs) \o concat(Tail(dfs))

\* pd.DataFrame(): the empty table (a table is its sequence of rows)
EmptyDataFrame == <<>>

(***************************************************************************)
(* State.                                                                  *)
(***************************************************************************)
VARIABLES
    store,       \* names of the data objects present in the bucket
    log_object,  \* the ledger object: [exists, text]
    run,         \* per invocation slot: the locals of the running call
    prev,        \* per invocation slot: the locals of its previous call
    returned,    \* data objects whose rows some call has returned
    added,       \* an object was uploaded since the last call started
    runs,        \* number of calls started
    upload,      \* the locals of the latest call of upload_to_bigquery
    table        \* the destination table: [exists, rows]

vars == <<store, log_object, run, prev, returned, added, runs, upload, table>>

\* invocation slots; slot 1 alone gives runs in succession
Procs == {1, 2}

\* the arguments of a call (bucket_name and prefix are fixed)
Call(read_log_file, file_type, file_prefix, delimiter) ==
    [read_log_file |-> read_log_file, file_type |-> file_type,
     file_prefix |-> file_prefix, delimiter |-> delimiter]

\* the default arguments but for file_type
DefaultCall == Call(TRUE, CSV, None, FALSE)

\* the calls made in the runs in succession
Calls ==
    { DefaultCall,
      Call(FALSE, CSV, None, FALSE),
      Call(TRUE, CSV, None, TRUE) }

\* locals at entry to the function (lines 225-230), before any call
NewRun(c) ==
    [ pc |-> "idle",
      call |-> c,
      files_already_read |-> <<>>,
      candidate_files |-> <<>>,
      files_to_read |-> <<>>,
      files_to_update_log |-> <<>>,
      all_dataframes |-> <<>>,
      i |-> 1,
      result |-> EmptyDataFrame,
      new_files |-> FALSE,
      outcome |-> "none",
      log_write |-> "none",
      skipped |-> {},
      failed |-> {},
      parsed |-> <<>> ]

\* the locals of upload_to_bigquery before its first call; calls counts
\* the calls started, before is the table's rows when the call started,
\* batches the arguments of the calls of pandas_gbq.to_gbq so far
NoUpload ==
    [ pc |-> "idle",
      df |-> <<>>,
      chunk_size |-> 1,
      if_exists |-> "append",
      i |-> 0,
      outcome |-> "none",
      calls |-> 0,
      before |-> <<>>,
      batches |-> <<>> ]

Init ==
    /\ upload = NoUpload
    /\ table = [exists |-> FALSE, rows |-> <<>>]
    /\ store = {}
    /\ log_object = [exists |-> FALSE, text |-> <<>>]
    /\ run = [p \in Procs |-> NewRun(DefaultCall)]
    /\ prev = [p \in Procs |-> NewRun(DefaultCall)]
    /\ returned = {}
    /\ added = FALSE
    /\ runs = 0

\* os.path.join(prefix, log_filename).replace("\\", "/")
log_blob_name == replace(path_join(prefix, log_filename), BACKSLASH, SLASH)

\* the step-1 parser of the ledger text:
\* [f.strip() for f in log_content.split("\n") if f.strip()]
ParseLog(log_content) ==
    LET lines == split(log_content, NL)
        kept == SelectSeq(lines, LAMBDA f : strip(f) # <<>>)
    IN  [k \in 1..Len(kept) |-> strip(kept[k])]

\* faulty variant: the names are merged into the ledger as it is at the time of
\* the write, not as it was read at the start of the run
UpdatedLogContent_Merge(files_already_read, files_to_update_log) ==
    LET current == IF log_object.exists THEN ParseLog(log_object.text)
                                        ELSE <<>>
    IN  join(NL, current \o SelectSeq(files_already_read \o files_to_update_log,
                                      LAMBDA n : ~In(n, current)))

\* "\n".join(files_already_read + files_to_update_log)
UpdatedLogContent(files_already_read, files_to_update_log) ==
    join(NL, files_already_read \o files_to_update_log)

\* bucket.list_blobs(prefix=prefix, delimiter="/" if delimiter else None):
\* the names under the prefix in listing order; with a delimiter, only the
\* names with no further "/" after the prefix
list_blobs(pfx, delimiter) ==
    LET objects == store \cup (IF log_object.exists THEN {log_blob_name}
                                                    ELSE {})
        under == {n \in objects : startswith(n, pfx)}
        direct == {n \in under :
                     ~In(SLASH, SubSeq(n, Len(pfx) + 1, Len(n)))}
    IN  Sorted(IF delimiter THEN direct ELSE under)

\* faulty variant: the ledger file name is not excluded
IsCandidate_LogIncluded(name, file_type, file_prefix) ==
    /\ endswith(name, file_type)
    /\ (file_prefix = None \/ startswith(TrailingName(name), file_prefix))

\* the filter of the list comprehension at lines 263-271
IsCandidate(name, file_type, file_prefix) ==
    /\ endswith(name, file_type)
    /\ (file_prefix = None \/ startswith(TrailingName(name), file_prefix))
    /\ TrailingName(name) # log_filename

\* faulty variant: the ledger is searched for the full object name
IsToRead_FullName(name, read_log_file, files_already_read) ==
    ~(read_log_file /\ In(name, files_already_read))

\* lines 281-287: the candidates not skipped because of the ledger
IsToRead(name, read_log_file, files_already_read) ==
    ~(read_log_file /\ In(TrailingName(name), files_already_read))

\* faulty variant: no outer except, the exception leaves the function
GeneralError_Propagates(r) ==
    [r EXCEPT !.pc = "raised", !.outcome = "error"]

\* the return of pd.DataFrame() from the outer except (lines 355-357)
GeneralError(r) ==
    [r EXCEPT !.pc = "done", !.outcome = "error", !.result = EmptyDataFrame]

(***************************************************************************)
(* The steps of one call of read_gcs_files_to_dataframes_aserta.           *)
(***************************************************************************)
\* Entry and step 1: the locals are initialised and storage.Client() is
\* built; a failure there is caught by the outer except.
Start(p, c, max) ==
    /\ run[p].pc \in {"idle", "done"}
    /\ runs < max
    /\ runs' = runs + 1
    /\ prev' = [prev EXCEPT ![p] = run[p]]
    /\ \E connected \in BOOLEAN :
         run' = [run EXCEPT ![p] =
                   IF connected
                   THEN [NewRun(c) EXCEPT !.pc = "log", !.new_files = added]
                   ELSE GeneralError([NewRun(c) EXCEPT !.new_files = added])]
    /\ added' = FALSE
    /\ UNCHANGED <<store, log_object, returned, upload, table>>

\* Step 2: with read_log_file the ledger object is looked up and, when it
\* exists, downloaded and parsed; without read_log_file nothing is read.
ReadLog(p) ==
    /\ run[p].pc = "log"
    /\ \E ok \in BOOLEAN :
         run' = [run EXCEPT ![p] =
                   IF ~run[p].call.read_log_file
                   THEN [@ EXCEPT !.pc = "list"]
                   ELSE IF ~ok
                   THEN GeneralError(@)
                   ELSE IF log_object.exists
                   THEN [@ EXCEPT !.pc = "list",
                           !.files_already_read = ParseLog(log_object.text)]
                   ELSE [@ EXCEPT !.pc = "list"]]
    /\ UNCHANGED <<store, log_object, prev, returned, added, runs, upload,
                 table>>

\* Steps 3 and 4: listing, the candidate filter, and the partition of the
\* candidates by the ledger, with the two early returns.
ListBlobs(p) ==
    /\ run[p].pc = "list"
    /\ \E ok \in BOOLEAN :
         LET r == run[p]
             blobs == list_blobs(prefix, r.call.delimiter)
             candidate_files ==
                 SelectSeq(blobs, LAMBDA n :
                     IsCandidate(n, r.call.file_type, r.call.file_prefix))
             files_to_read ==
                 SelectSeq(candidate_files, LAMBDA n :
                     IsToRead(n, r.call.read_log_file, r.files_already_read))
             files_to_update_log ==
                 [k \in 1..Len(files_to_read) |->
                     TrailingName(files_to_read[k])]
             skipped ==
                 {candidate_files[k] : k \in 1..Len(candidate_files)}
                     \ {files_to_read[k] : k \in 1..Len(files_to_read)}
         IN  run' = [run EXCEPT ![p] =
                 IF ~ok THEN GeneralError(r)
                 ELSE IF candidate_files = <<>>
                 THEN [r EXCEPT !.pc = "done", !.outcome = "no_candidates",
                                !.result = EmptyDataFrame]
                 ELSE IF files_to_read = <<>>
                 THEN [r EXCEPT !.pc = "done", !.outcome = "all_processed",
                                !.candidate_files = candidate_files,
                                !.skipped = skipped,
                                !.result = EmptyDataFrame]
                 ELSE [r EXCEPT !.pc = "read",
                                !.candidate_files = candidate_files,
                                !.files_to_read = files_to_read,
                                !.files_to_update_log = files_to_update_log,
                                !.skipped = skipped,
                                !.i = 1]]
    /\ UNCHANGED <<store, log_object, prev, returned, added, runs, upload,
                 table>>

\* faulty variant: a failure is swallowed and the file counts as parsed, empty
ReadOne_SwallowFailure(r, blob, ok) ==
    [r EXCEPT !.failed = IF ok THEN @ ELSE @ \cup {blob},
              !.parsed = IF ok THEN Append(@, blob) ELSE @,
              !.all_dataframes =
                  Append(@, IF ok THEN TagFile(FileRows(blob),
                                               TrailingName(blob))
                                  ELSE EmptyDataFrame)]

\* faulty variant: a failing file discards the tables accumulated so far
ReadOne_NoIsolation(r, blob, ok) ==
    IF ~ok
    THEN [r EXCEPT !.failed = @ \cup {blob},
                   !.all_dataframes = <<>>,
                   !.files_to_update_log =
                       IF In(TrailingName(blob), @)
                       THEN remove(@, TrailingName(blob)) ELSE @]
    ELSE [r EXCEPT !.all_dataframes =
                       Append(@, TagFile(FileRows(blob), TrailingName(blob))),
                   !.parsed = Append(@, blob)]

\* faulty variant: a file of any type is parsed
ReadOne_NoTypeCheck(r, blob, ok) ==
    LET file_name == TrailingName(blob) IN
    IF ~ok
    THEN [r EXCEPT !.failed = @ \cup {blob},
                   !.files_to_update_log =
                       IF In(file_name, @) THEN remove(@, file_name) ELSE @]
    ELSE [r EXCEPT !.all_dataframes =
                       Append(@, TagFile(FileRows(blob), file_name)),
                   !.parsed = Append(@, blob)]

\* the body of the loop at lines 298-316 for one file: r is the locals,
\* blob the file, ok whether download and parse succeed
ReadOne(r, blob, ok) ==
    LET file_name == TrailingName(blob) IN
    IF ~ok
    THEN [r EXCEPT !.failed = @ \cup {blob},
                   !.files_to_update_log =
                       IF In(file_name, @) THEN remove(@, file_name) ELSE @]
    ELSE IF r.call.file_type \in {XLSX, CSV}
    THEN [r EXCEPT !.all_dataframes =
                       Append(@, TagFile(FileRows(blob), file_name)),
                   !.parsed = Append(@, blob)]
    ELSE r

\* Step 5, one iteration of the loop over files_to_read.
ReadFile(p) ==
    /\ run[p].pc = "read"
    /\ run[p].i <= Len(run[p].files_to_read)
    /\ \E ok \in BOOLEAN :
         run' = [run EXCEPT ![p] =
                   [ReadOne(@, @.files_to_read[@.i], ok) EXCEPT !.i = @ + 1]]
    /\ UNCHANGED <<store, log_object, prev, returned, added, runs, upload,
                 table>>

\* faulty variant: the ledger is written whether or not read_log_file is set
WritesLog_NoFlag(r) == r.files_to_update_log # <<>>

\* line 326: the ledger is written only under this condition
\* (log_blob is set whenever read_log_file is)
WritesLog(r) ==
    /\ r.call.read_log_file
    /\ r.files_to_update_log # <<>>

\* faulty variant: the upload is not in a try of its own, so its failure reaches
\* the outer except and the data is not returned
FinishLocals_NoInnerTry(r, concat_ok, upload_ok) ==
    IF r.all_dataframes = <<>>
    THEN [r EXCEPT !.pc = "done", !.outcome = "none_parsed",
                   !.result = EmptyDataFrame]
    ELSE IF ~concat_ok
    THEN GeneralError(r)
    ELSE IF WritesLog(r) /\ ~upload_ok
    THEN [GeneralError(r) EXCEPT !.log_write = "failed"]
    ELSE [r EXCEPT !.pc = "done", !.outcome = "ok",
                   !.result = concat(r.all_dataframes),
                   !.log_write = IF WritesLog(r) THEN "ok" ELSE "none"]

\* lines 319-357: the locals when the function returns, given whether
\* pd.concat and log_blob.upload_from_string succeed
FinishLocals(r, concat_ok, upload_ok) ==
    IF r.all_dataframes = <<>>
    THEN [r EXCEPT !.pc = "done", !.outcome = "none_parsed",
                   !.result = EmptyDataFrame]
    ELSE IF ~concat_ok
    THEN GeneralError(r)
    ELSE [r EXCEPT !.pc = "done", !.outcome = "ok",
                   !.result = concat(r.all_dataframes),
                   !.log_write = IF ~WritesLog(r) THEN "none"
                                 ELSE IF upload_ok THEN "ok"
                                 ELSE "failed"]

\* Step 6: concatenation, the ledger upload (a full overwrite, or no
\* change when it fails) and the return.
Finish(p) ==
    /\ run[p].pc = "read"
    /\ run[p].i > Len(run[p].files_to_read)
    /\ \E concat_ok \in BOOLEAN, upload_ok \in BOOLEAN :
         LET r == run[p]
             after == FinishLocals(r, concat_ok, upload_ok)
         IN  /\ run' = [run EXCEPT ![p] = after]
             /\ log_object' =
                  IF after.log_write = "ok"
                  THEN [exists |-> TRUE,
                        text |-> UpdatedLogContent(r.files_already_read,
                                                   r.files_to_update_log)]
                  ELSE log_object
             /\ returned' =
                  IF after.outcome = "ok"
                  THEN returned \cup Range(r.parsed)
                  ELSE returned
    /\ UNCHANGED <<store, prev, added, runs, upload, table>>

\* An upload of a new data object to the bucket by its owner.
AddFile(b) ==
    /\ b \notin store
    /\ store' = store \cup {b}
    /\ added' = TRUE
    /\ UNCHANGED <<log_object, run, prev, returned, runs, upload, table>>

\* a DataFrame of n rows handed to call u of upload_to_bigquery
DataFrame(u, n) == [k \in 1..n |-> <<u, k>>]

\* df.iloc[i : i + chunk_size]
iloc(df, i, j) ==
    SubSeq(df, i + 1, IF j < Len(df) THEN j ELSE Len(df))

\* lines 143-145
current_if_exists(i, if_exists) ==
    IF i = 0 /\ if_exists = "replace" THEN "replace" ELSE "append"

\* pandas_gbq.to_gbq(df_chunk, ..., if_exists=...) on a table with rows
to_gbq(rows, df_chunk, mode) ==
    IF mode = "replace" THEN df_chunk ELSE rows \o df_chunk

\* upload_to_bigquery, steps 1 to 5: the client, the schema and the table,
\* which is created if it does not exist; ok is whether none of them raises
UploadStart(n, chunk_size, if_exists, ok) ==
    /\ upload.pc \in {"idle", "done"}
    /\ upload.calls < MaxUploads
    /\ upload' =
         [ pc |-> IF ok THEN "load" ELSE "done",
           df |-> DataFrame(upload.calls + 1, n),
           chunk_size |-> chunk_size,
           if_exists |-> if_exists,
           i |-> 0,
           outcome |-> IF ok THEN "none" ELSE "error",
           calls |-> upload.calls + 1,
           before |-> table.rows,
           batches |-> <<>> ]
    /\ table' = IF ok THEN [table EXCEPT !.exists = TRUE] ELSE table
    /\ UNCHANGED <<store, log_object, run, prev, returned, added, runs>>

\* step 6, one iteration of the loop over range(0, total_rows, chunk_size);
\* ok is whether pandas_gbq.to_gbq returns, the except clause at line 158
\* ends the call otherwise
UploadChunk(ok) ==
    /\ upload.pc = "load"
    /\ upload.i < Len(upload.df)
    /\ LET df_chunk == iloc(upload.df, upload.i, upload.i + upload.chunk_size)
           mode == current_if_exists(upload.i, upload.if_exists)
       IN  IF ok
           THEN /\ table' = [table EXCEPT !.rows = to_gbq(@, df_chunk, mode)]
                /\ upload' =
                     [upload EXCEPT
                        !.i = @ + upload.chunk_size,
                        !.batches =
                            Append(@, [rows |-> df_chunk, if_exists |-> mode])]
           ELSE /\ table' = table
                /\ upload' = [upload EXCEPT !.pc = "done",
                                            !.outcome = "error"]
    /\ UNCHANGED <<store, log_object, run, prev, returned, added, runs>>

\* the loop is over and the call returns
UploadReturn ==
    /\ upload.pc = "load"
    /\ upload.i >= Len(upload.df)
    /\ upload' = [upload EXCEPT !.pc = "done", !.outcome = "ok"]
    /\ UNCHANGED <<store, log_object, run, prev, returned, added, runs,
                   table>>

\* one step of the call in slot p, the arguments drawn from C, in a
\* behaviour of at most max calls
Step(p, C, max) ==
    \/ \E c \in C : Start(p, c, max)
    \/ ReadLog(p)
    \/ ListBlobs(p)
    \/ ReadFile(p)
    \/ Finish(p)

\* no call is in progress
Quiet == \A p \in Procs : run[p].pc \in {"idle", "done"}

\* runs in succession: one slot, and uploads between the runs
Next ==
    \/ \E b \in AllBlobs : Quiet /\ AddFile(b)
    \/ Step(1, Calls, MaxRuns)

Spec == Init /\ [][Next]_vars

\* runs with the default arguments that may overlap, two at a time
ConcBlobs == {BlobA, BlobB}

NextConc ==
    \/ \E b \in ConcBlobs : Quiet /\ AddFile(b)
    \/ \E p \in Procs : Step(p, {DefaultCall}, MaxConcRuns)

SpecConc == Init /\ [][NextConc]_vars

\* runs in succession, with or without read_log_file
ModeBlobs == {BlobA, BlobB, BlobSubA}

ModeCalls == {DefaultCall, Call(FALSE, CSV, None, FALSE)}

NextModes ==
    \/ \E b \in ModeBlobs : Quiet /\ AddFile(b)
    \/ Step(1, ModeCalls, MaxModeRuns)

SpecModes == Init /\ [][NextModes]_vars

\* runs in succession that differ in file_type and file_prefix
FilterBlobs == {BlobADataCsv, BlobBOtherCsv, BlobADataTxt, BlobSubLog}

FilterCalls ==
    { DefaultCall,
      Call(TRUE, CSV, PrefixA, FALSE),
      Call(TRUE, TXT, None, FALSE),
      Call(TRUE, TXT, PrefixA, FALSE) }

NextFilter ==
    \/ \E b \in FilterBlobs : Quiet /\ AddFile(b)
    \/ Step(1, FilterCalls, MaxFilterRuns)

SpecFilter == Init /\ [][NextFilter]_vars

\* runs in succession with a supported and an unsupported file_type
TypeBlobs == {BlobADataTxt, BlobSubADataTxt, BlobADataCsv}

TypeCalls ==
    { DefaultCall,
      Call(TRUE, TXT, None, FALSE),
      Call(FALSE, TXT, None, FALSE) }

NextTypes ==
    \/ \E b \in TypeBlobs : Quiet /\ AddFile(b)
    \/ Step(1, TypeCalls, MaxTypeRuns)

SpecTypes == Init /\ [][NextTypes]_vars

\* calls of upload_to_bigquery in succession on one destination table
NextUpload ==
    \/ \E n \in 0..MaxRows, chunk_size \in 1..MaxChunk,
          if_exists \in {"append", "replace"}, ok \in BOOLEAN :
          UploadStart(n, chunk_size, if_exists, ok)
    \/ \E ok \in BOOLEAN : UploadChunk(ok)
    \/ UploadReturn

SpecUpload == Init /\ [][NextUpload]_vars

(***************************************************************************)
(* Properties.  "The run" is the call in slot 1 once it has returned;      *)
(* "the previous run" is the call that slot made before it.                *)
(***************************************************************************)
Returned(r) == r.pc = "done"

\* the names the step-1 parser reads back from the ledger object
PersistedLedger ==
    IF log_object.exists THEN ParseLog(log_object.text) ELSE <<>>

\* C1 (as claimed): in a run with read_log_file whose ledger write
\* succeeded, no file that failed to download or parse is marked processed
\* by the ledger that run wrote (each is to be read on the next run), and
\* every name the run added is the name of a file it parsed.
C1_FailedNeverMarked ==
    (/\ Returned(run[1])
     /\ run[1].call.read_log_file
     /\ run[1].log_write = "ok")
    => /\ \A b \in run[1].failed : IsToRead(b, TRUE, PersistedLedger)
       /\ \A k \in 1..Len(run[1].files_to_update_log) :
            \E b \in Range(run[1].parsed) :
               TrailingName(b) = run[1].files_to_update_log[k]

\* C2 (as claimed): every file a run skips as already listed in the
\* ledger had its rows returned to a caller by an earlier run.
C2_SkippedWereReturned ==
    \A b \in run[1].skipped : b \in returned

\* the previous run and the run are two calls in succession with the same
\* arguments, and no object was uploaded between them
TwoRuns ==
    /\ Returned(prev[1])
    /\ Returned(run[1])
    /\ run[1].call = prev[1].call
    /\ ~run[1].new_files

\* a name the ledger text format gives back unchanged: not empty, no
\* newline in it, no whitespace at either end
CleanName(n) == n # <<>> /\ ~In(NL, n) /\ strip(n) = n

\* C3 (as claimed): two runs in succession with read_log_file and no new
\* files between them give a non-empty result, then an empty one.
C3_NonEmptyThenEmpty ==
    (TwoRuns /\ run[1].call.read_log_file)
    => /\ prev[1].result # EmptyDataFrame
       /\ run[1].result = EmptyDataFrame

\* the first of two runs found files to read, parsed every one of them,
\* one at least with a row, concatenated them and wrote the ledger, and
\* the names of those files are clean
FirstRunComplete ==
    /\ prev[1].outcome = "ok"
    /\ prev[1].failed = {}
    /\ prev[1].log_write = "ok"
    /\ \E b \in Range(prev[1].parsed) : NumRows(b) > 0
    /\ \A b \in Range(prev[1].files_to_read) : CleanName(TrailingName(b))

\* C3 (amended): two runs in succession with read_log_file and no new
\* files between them, the first of which read at least one new file with
\* rows, had no failure and wrote the ledger, the file names being clean,
\* give a non-empty result, then an empty one.
C3_Idempotent ==
    (TwoRuns /\ run[1].call.read_log_file /\ FirstRunComplete)
    => /\ prev[1].result # EmptyDataFrame
       /\ run[1].result = EmptyDataFrame

\* C3 witness: a second run that skipped every candidate after a complete
\* first run
C3_Witness ==
    /\ TwoRuns
    /\ run[1].call.read_log_file
    /\ FirstRunComplete
    /\ run[1].outcome = "all_processed"
    /\ Len(run[1].candidate_files) >= 2

\* the rows of the objects of files that are in ok, in the order of files
\* then of the rows of each object, each row tagged with the trailing name
RECURSIVE ExpectedRows(_, _)
ExpectedRows(files, ok) ==
    IF files = <<>> THEN <<>>
    ELSE (IF Head(files) \in ok
          THEN [k \in 1..NumRows(Head(files)) |->
                   [src |-> Head(files), row |-> k,
                    file |-> TrailingName(Head(files))]]
          ELSE <<>>) \o ExpectedRows(Tail(files), ok)

\* the run went through the whole of files_to_read and returned the rows
\* of the files that parsed, and of no other
IsolatedResult(r) ==
    /\ r.i = Len(r.files_to_read) + 1
    /\ Range(r.parsed) \cap r.failed = {}
    /\ Range(r.parsed) \cup r.failed \subseteq Range(r.files_to_read)
    /\ r.result = ExpectedRows(r.files_to_read, Range(r.parsed))

\* C4 (as claimed): a run with files to read, whichever of them fail to
\* download or parse, processes every file and returns exactly the rows of
\* the files that parsed, in listing order, tagged with the trailing name.
C4_PartialFailureIsolated ==
    (Returned(run[1]) /\ run[1].files_to_read # <<>>)
    => IsolatedResult(run[1])

\* C4 (amended): the same, for a run whose final concatenation does not
\* raise.
C4_IsolatedUnlessConcatFails ==
    (/\ Returned(run[1])
     /\ run[1].files_to_read # <<>>
     /\ run[1].outcome # "error")
    => IsolatedResult(run[1])

\* C4 witness: three files to read, the second failed, the first and the
\* third parsed and returned
C4_Witness ==
    /\ Returned(run[1])
    /\ run[1].outcome = "ok"
    /\ Len(run[1].files_to_read) = 3
    /\ run[1].files_to_read[2] \in run[1].failed
    /\ run[1].parsed = <<run[1].files_to_read[1], run[1].files_to_read[3]>>
    /\ Len(run[1].result) >= 2

\* C5 (as claimed): after a run with read_log_file whose ledger write
\* succeeded, the ledger object read back with the step-1 parser is the
\* names read at the start of the run followed by the trailing names of
\* the files the run parsed, in processing order.
C5_LedgerRoundTrip ==
    (/\ Returned(run[1])
     /\ run[1].call.read_log_file
     /\ run[1].log_write = "ok")
    => PersistedLedger =
         run[1].files_already_read \o
           [k \in 1..Len(run[1].parsed) |-> TrailingName(run[1].parsed[k])]

\* the run parsed no new file: it had no candidate, or every candidate was
\* in the ledger, or every file to read failed
NothingParsed(r) ==
    \/ r.candidate_files = <<>>
    \/ r.files_to_read = <<>>
    \/ Range(r.files_to_read) \subseteq r.failed

\* C6: the ledger object changes only in the step in which a run that
\* parsed at least one new file returns (so at most once in a run), and a
\* run that parsed nothing returns the empty table without writing it.
C6_WriteOnlyAfterParse ==
    /\ [][(log_object' # log_object)
            => /\ run[1].pc = "read"
               /\ run'[1].pc = "done"
               /\ run'[1].parsed # <<>>
               /\ ~NothingParsed(run'[1])]_vars
    /\ []((Returned(run[1]) /\ NothingParsed(run[1]))
            => /\ run[1].result = EmptyDataFrame
               /\ run[1].log_write = "none")

\* C6 witness: a run in which each of two or more files to read failed
\* has returned, and the ledger an earlier run wrote is still there
C6_Witness ==
    /\ Returned(run[1])
    /\ Len(run[1].files_to_read) >= 2
    /\ Range(run[1].files_to_read) \subseteq run[1].failed
    /\ run[1].call.read_log_file
    /\ log_object.exists
    /\ PersistedLedger = run[1].files_already_read

\* the call in slot 1 is under way
InProgress == run[1].pc \in {"log", "list", "read"}

\* C7: a call is only ever not started, under way or returned (it never
\* raises); under way it always has a next step, whatever failed before;
\* a call that ends in the general error handler returns the empty table
\* and has written nothing, and the step that takes it there leaves the
\* ledger object as it was.
C7_NeverRaises ==
    /\ [](run[1].pc \in {"idle", "log", "list", "read", "done"})
    /\ [](InProgress =>
            ENABLED (ReadLog(1) \/ ListBlobs(1) \/ ReadFile(1) \/ Finish(1)))
    /\ []((run[1].pc # "idle" /\ ~InProgress /\ run[1].outcome = "error")
            => /\ Returned(run[1])
               /\ run[1].result = EmptyDataFrame
               /\ run[1].log_write = "none")
    /\ [][(run'[1] # run[1] /\ run'[1].outcome = "error")
            => log_object' = log_object]_vars

\* C7 witness: with objects in the bucket and a ledger written by an
\* earlier run, a call failed before it had a list of files to read and
\* has returned the empty table
C7_Witness ==
    /\ Returned(run[1])
    /\ run[1].outcome = "error"
    /\ run[1].files_to_read = <<>>
    /\ run[1].result = EmptyDataFrame
    /\ store # {}
    /\ log_object.exists
    /\ PersistedLedger = prev[1].files_already_read
                           \o prev[1].files_to_update_log

\* the call failed before it had a list of files to read
SetupFailed(r) == r.outcome = "error" /\ r.files_to_read = <<>>

\* the call in slot 1 has its list of files to read (or has returned
\* without a setup failure), it has the arguments of the finished call
\* before it, and no object was uploaded between the two
NextRunListed ==
    /\ Returned(prev[1])
    /\ run[1].pc \in {"read", "done"}
    /\ ~SetupFailed(run[1])
    /\ run[1].call = prev[1].call
    /\ ~run[1].new_files

\* C8: a run whose ledger upload failed has returned the rows of all the
\* files it parsed and the ledger object is as the run read it; the step
\* in which the upload fails does not change the ledger object; and the
\* next run over the unchanged store has the same files to read, and goes
\* through each of them.
C8_LedgerWriteFailure ==
    /\ []((Returned(run[1]) /\ run[1].log_write = "failed")
            => /\ run[1].outcome = "ok"
               /\ run[1].parsed # <<>>
               /\ run[1].result =
                    ExpectedRows(run[1].files_to_read, Range(run[1].parsed))
               /\ PersistedLedger = run[1].files_already_read)
    /\ [][(run'[1] # run[1] /\ run'[1].log_write = "failed")
            => log_object' = log_object]_vars
    /\ []((NextRunListed /\ prev[1].log_write = "failed")
            => /\ run[1].files_to_read = prev[1].files_to_read
               /\ run[1].files_already_read = prev[1].files_already_read
               /\ (Returned(run[1]) =>
                     /\ run[1].i = Len(run[1].files_to_read) + 1
                     /\ Range(run[1].parsed) \cup run[1].failed
                          = Range(run[1].files_to_read)))

\* C8 witness: the run after one whose ledger upload failed has read the
\* same two or more files again and returned their rows
C8_Witness ==
    /\ NextRunListed
    /\ prev[1].log_write = "failed"
    /\ Len(prev[1].files_to_read) >= 2
    /\ Returned(run[1])
    /\ run[1].files_to_read = prev[1].files_to_read
    /\ Range(run[1].parsed) = Range(run[1].files_to_read)
    /\ run[1].result = prev[1].result
    /\ run[1].result # EmptyDataFrame

\* C9: every successful ledger upload leaves the ledger object holding
\* what the uploading run read at its start followed by its own names,
\* whatever another run has written since (an unlocked read-modify-write,
\* the last writer wins).
C9_LastWriterWins ==
    [][\A p \in Procs :
         (run'[p] # run[p] /\ run'[p].log_write = "ok")
         => ParseLog(log_object'.text) =
              run[p].files_already_read \o run[p].files_to_update_log]_vars

\* C9 witness: slot 1's earlier run and slot 2's run both read the same
\* ledger and both wrote it; a file the earlier run parsed and wrote is
\* missing from the ledger the later run of slot 1 read, which has read
\* that file again.
C9_Witness ==
    /\ Returned(prev[1]) /\ prev[1].log_write = "ok"
    /\ Returned(run[2]) /\ run[2].log_write = "ok"
    /\ run[2].files_already_read = prev[1].files_already_read
    /\ Returned(run[1])
    /\ \E b \in Range(prev[1].parsed) \cap Range(run[1].parsed) :
          /\ In(TrailingName(b), prev[1].files_to_update_log)
          /\ ~In(TrailingName(b), run[1].files_already_read)
          /\ In(TrailingName(b), run[2].files_already_read
                                   \o run[2].files_to_update_log) = FALSE

\* the call neither read nor wrote the ledger and has every candidate in
\* its files to read
LedgerIgnored(r) ==
    /\ r.files_already_read = <<>>
    /\ r.log_write = "none"
    /\ r.skipped = {}
    /\ (r.pc \in {"read", "done"} /\ ~SetupFailed(r))
         => r.files_to_read = r.candidate_files

\* the call returned the rows of every object under the prefix that is a
\* candidate for its arguments
FullResult(r) ==
    LET all == SelectSeq(list_blobs(prefix, r.call.delimiter), LAMBDA n :
                   IsCandidate(n, r.call.file_type, r.call.file_prefix))
    IN  r.result = ExpectedRows(all, Range(all))

\* C10 (as claimed): a call with read_log_file=False neither reads nor
\* writes the ledger object and reads every candidate; two such runs in
\* succession over an unchanged store both return the full result set,
\* the same for both.
C10_NoLedgerMode ==
    /\ []((run[1].pc # "idle" /\ ~run[1].call.read_log_file)
            => LedgerIgnored(run[1]))
    /\ [][(run'[1] # run[1] /\ ~run'[1].call.read_log_file)
            => log_object' = log_object]_vars
    /\ []((TwoRuns /\ ~run[1].call.read_log_file /\ ~added)
            => /\ FullResult(run[1])
               /\ run[1].result = prev[1].result)

\* the call had no failure: not in connecting or listing, not in any
\* download or parse, not in the concatenation
NoFailure(r) == r.outcome # "error" /\ r.failed = {}

\* C10 (amended): the same, the two runs being runs in which no step
\* fails.
C10_NoLedgerModeNoFailure ==
    /\ []((run[1].pc # "idle" /\ ~run[1].call.read_log_file)
            => LedgerIgnored(run[1]))
    /\ [][(run'[1] # run[1] /\ ~run'[1].call.read_log_file)
            => log_object' = log_object]_vars
    /\ []((/\ TwoRuns /\ ~run[1].call.read_log_file /\ ~added
           /\ NoFailure(run[1]) /\ NoFailure(prev[1]))
            => /\ FullResult(run[1])
               /\ run[1].result = prev[1].result)

\* C10 witness: the ledger lists the candidates, and two runs in
\* succession with read_log_file=False have both returned the rows of the
\* two or more candidates
C10_Witness ==
    /\ TwoRuns /\ ~run[1].call.read_log_file /\ ~added
    /\ NoFailure(run[1]) /\ NoFailure(prev[1])
    /\ Len(run[1].candidate_files) >= 2
    /\ \A k \in 1..Len(run[1].candidate_files) :
          In(TrailingName(run[1].candidate_files[k]), PersistedLedger)
    /\ run[1].result = prev[1].result
    /\ Len(run[1].result) >= 2

\* the part of a name after its last "/" (the whole name if it has none)
LastSegment(n) ==
    LET slashes == {k \in 1..Len(n) : n[k] = SLASH}
        last == IF slashes = {} THEN 0
                ELSE CHOOSE k \in slashes : \A j \in slashes : j <= k
    IN  SubSeq(n, last + 1, Len(n))

\* the filter as the specification words it: the name ends with file_type,
\* its last segment starts with file_prefix when one is given, and its
\* last segment is not the ledger file name
MeetsFilter(n, file_type, file_prefix) ==
    /\ \E k \in 0..Len(n) : n = SubSeq(n, 1, k) \o file_type
    /\ \/ file_prefix = None
       \/ \E k \in 0..Len(LastSegment(n)) :
             LastSegment(n) =
                 file_prefix \o SubSeq(LastSegment(n), k + 1,
                                       Len(LastSegment(n)))
    /\ LastSegment(n) # log_filename

\* the call in slot 1 has listed the prefix, and no object was uploaded
\* since it started
Listed ==
    /\ run[1].pc \in {"read", "done"}
    /\ ~SetupFailed(run[1])
    /\ ~added

\* C11: the candidates of a run are exactly the listed objects that meet
\* the filter; of a_data.csv, b_other.csv and a_data.txt, with file_type
\* ".csv" and file_prefix "a_", a_data.csv alone is a candidate; and the
\* ledger object is a candidate for no file_type.
C11_FilenameFilter ==
    /\ Listed =>
         Range(run[1].candidate_files) =
           {n \in Range(list_blobs(prefix, run[1].call.delimiter)) :
              MeetsFilter(n, run[1].call.file_type, run[1].call.file_prefix)}
    /\ (/\ Listed
        /\ run[1].call.file_type = CSV
        /\ run[1].call.file_prefix = PrefixA
        /\ {BlobADataCsv, BlobBOtherCsv, BlobADataTxt} \subseteq store)
       => run[1].candidate_files = <<BlobADataCsv>>
    /\ ~In(log_blob_name, run[1].candidate_files)

\* C11 witness: the ledger object existed and all the objects were there
\* when a run with file_type ".txt" listed the prefix, and a_data.txt
\* alone is its candidate
C11_Witness ==
    /\ Listed
    /\ run[1].call.file_type = TXT
    /\ run[1].files_already_read # <<>>
    /\ store = FilterBlobs
    /\ run[1].candidate_files = <<BlobADataTxt>>

\* the call was made with a file_type other than ".xlsx" and ".csv"
Unsupported(r) == r.call.file_type \notin {XLSX, CSV}

\* the trailing names of the files to read, in order
NamesToRead(r) ==
    [k \in 1..Len(r.files_to_read) |-> TrailingName(r.files_to_read[k])]

\* the trailing names of the files to read whose download did not fail
NamesNotFailed(r) ==
    LET Downloaded(b) == b \notin r.failed
        files == SelectSeq(r.files_to_read, Downloaded)
    IN  [k \in 1..Len(files) |-> TrailingName(files[k])]

\* C12 as stated: a run with an unsupported file_type treats no file as a
\* failure, parses nothing, returns the empty table, writes no ledger, and
\* the name of every file to read is still in files_to_update_log.
C12_UnsupportedSkipped ==
    (Returned(run[1]) /\ Unsupported(run[1]))
      => /\ run[1].failed = {}
         /\ run[1].parsed = <<>>
         /\ run[1].result = EmptyDataFrame
         /\ run[1].log_write = "none"
         /\ run[1].files_to_update_log = NamesToRead(run[1])

\* C12: a run with an unsupported file_type parses nothing, returns the
\* empty table and does not write the ledger, the names of the files whose
\* download succeeded are still in files_to_update_log (a file whose
\* download fails is treated as a failure and its name removed), and the
\* ledger object never changes while such a call is the latest one.
C12_UnsupportedSkippedIfDownloaded ==
    /\ []((Returned(run[1]) /\ Unsupported(run[1]))
            => /\ run[1].parsed = <<>>
               /\ run[1].all_dataframes = <<>>
               /\ run[1].result = EmptyDataFrame
               /\ run[1].log_write = "none"
               /\ run[1].files_to_update_log = NamesNotFailed(run[1]))
    /\ [][Unsupported(run[1]) => log_object' = log_object]_vars

\* C12 witness: a run with file_type ".txt" and the ledger in use has
\* downloaded two files and returned, both names are still in
\* files_to_update_log, and the ledger an earlier run wrote is there
C12_Witness ==
    /\ Returned(run[1])
    /\ Unsupported(run[1])
    /\ run[1].call.read_log_file
    /\ Len(run[1].files_to_read) = 2
    /\ run[1].failed = {}
    /\ Len(run[1].files_to_update_log) = 2
    /\ log_object.exists

\* the rows of the batches s, one after the other
Flatten(s) ==
    LET RECURSIVE F(_)
        F(k) == IF k = 0 THEN <<>> ELSE F(k - 1) \o s[k].rows
    IN  F(Len(s))

\* the call of upload_to_bigquery has returned and no step of it failed
Uploaded == upload.pc = "done" /\ upload.outcome = "ok"

\* the batches cover every row once and in order, each of chunk_size rows
\* but the last, the first alone with 'replace' and only if asked for
BatchesCover ==
    /\ Flatten(upload.batches) = upload.df
    /\ \A k \in 1..Len(upload.batches) :
         /\ Len(upload.batches[k].rows) >= 1
         /\ Len(upload.batches[k].rows) <= upload.chunk_size
         /\ k < Len(upload.batches)
              => Len(upload.batches[k].rows) = upload.chunk_size
         /\ upload.batches[k].if_exists =
              IF k = 1 /\ upload.if_exists = "replace"
              THEN "replace" ELSE "append"

\* C13 as stated: after a call in which no step failed the batches cover
\* the DataFrame, with if_exists='replace' the table holds exactly the
\* rows of the DataFrame, and with if_exists='append' its previous rows
\* followed by them, for every row count (0 too) and chunk_size >= 1.
C13_UploadBatches ==
    Uploaded
      => /\ BatchesCover
         /\ upload.if_exists = "replace" => table.rows = upload.df
         /\ upload.if_exists = "append"
              => table.rows = upload.before \o upload.df

====
